---- MODULE Spec2Model ----
\* A model of @softwareventures/format-date-time (src/index.ts):
\* the template tag function dateTimeTemplate and the iso8601 formatter
\* builder, together with the field formatters iso8601 plugs into its
\* template.
\*
\* Representation.
\*   - A JavaScript string is a sequence of one-character strings, so that
\*     concatenation, padding and comparison are computed and not assumed.
\*   - A DateTime is a record of its numeric fields.  The seconds field is a
\*     fixed-point number of microseconds (23.723615 s = 23723615).
\*   - A DateTimeFormatter (a function value) is a record saying which
\*     function it is; a formatter built by dateTimeTemplate carries the
\*     texts and formatters its closure captured.
\*   - The JavaScript values undefined and null are the strings "undefined"
\*     and "null" in option fields, and a piece with defined = FALSE in the
\*     array that dateTimeTemplate joins.
EXTENDS Integers, Sequences, FiniteSets, TLC

\* ------------------------------------------------------------------ bounds

\* The longest texts array a direct call of dateTimeTemplate is given.
MaxLits == 2

\* The number of assignments to the fields of the options object that are
\* followed after iso8601 returned.
MaxAssignments == 1

\* ------------------------------------------------------------------- state

\* options    the Iso8601Options object the caller passed to iso8601 and still
\*            holds (JavaScript passes the object, and the caller can assign
\*            to its fields);
\* formatter  the DateTimeFormatter that was constructed last;
\* builtWith  the value options had when formatter was constructed;
\* lastCall   the last call formatter(dateTime) and how it ended;
\* seen       per DateTime, how the first call of formatter on it ended;
\* array      the array the last call of concatMap built;
\* assignments  the number of assignments to fields of options since
\*            formatter was constructed.
VARIABLES options, formatter, builtWith, lastCall, seen, array, assignments

vars == <<options, formatter, builtWith, lastCall, seen, array, assignments>>

\* ----------------------------------------------------------------- strings

Undefined == "undefined"

Null == "null"

DigitChars == <<"0", "1", "2", "3", "4", "5", "6", "7", "8", "9">>

\* String(n) for a non-negative integer n.
RECURSIVE NatToString(_)
NatToString(n) ==
    IF n < 10 THEN <<DigitChars[n + 1]>>
    ELSE NatToString(n \div 10) \o <<DigitChars[(n % 10) + 1]>>

\* String.prototype.padStart with a one-character filler.
RECURSIVE PadStart(_, _, _)
PadStart(s, width, fill) ==
    IF Len(s) >= width THEN s ELSE PadStart(<<fill>> \o s, width, fill)

RECURSIVE StripTrailingZeros(_)
StripTrailingZeros(s) ==
    IF s # <<>> /\ s[Len(s)] = "0"
    THEN StripTrailingZeros(SubSeq(s, 1, Len(s) - 1))
    ELSE s

\* The seconds field is held in microseconds.
WholeSeconds(dateTime) == dateTime.seconds \div (1000 * 1000)

Micros(dateTime) == dateTime.seconds % (1000 * 1000)

\* The decimal fraction String(seconds) prints: every available digit, no
\* trailing zero, nothing at all for a whole number of seconds.
Fraction(dateTime) ==
    IF Micros(dateTime) = 0 THEN <<>>
    ELSE <<".">> \o StripTrailingZeros(PadStart(NatToString(Micros(dateTime)), 6, "0"))

\* --------------------------------------------------------- field formatters

year4(dateTime) == PadStart(NatToString(dateTime.year), 4, "0")

month2(dateTime) == PadStart(NatToString(dateTime.month), 2, "0")

day2(dateTime) == PadStart(NatToString(dateTime.day), 2, "0")

hours2(dateTime) == PadStart(NatToString(dateTime.hours), 2, "0")

minutes2(dateTime) == PadStart(NatToString(dateTime.minutes), 2, "0")

seconds2(dateTime) ==
    PadStart(NatToString(WholeSeconds(dateTime)), 2, "0") \o Fraction(dateTime)

floorSeconds2(dateTime) == PadStart(NatToString(WholeSeconds(dateTime)), 2, "0")

secondsMs(dateTime) ==
    PadStart(NatToString(WholeSeconds(dateTime)), 2, "0") \o <<".">>
        \o PadStart(NatToString(Micros(dateTime) \div 1000), 3, "0")

\* ---------------------------------------------------------------- DateTime

DateTimeOf(y, mo, d, h, mi, s) ==
    [year |-> y, month |-> mo, day |-> d, hours |-> h, minutes |-> mi, seconds |-> s]

\* 2024-01-26T11:57:23.723615, the example of the documentation of iso8601;
\* the same time cut to the whole second; and 0987-12-03T00:05:09.007, where
\* every field needs padding and the seconds have exactly three decimals.
DateTimes ==
    { DateTimeOf(2024, 1, 26, 11, 57, 23723615),
      DateTimeOf(2024, 1, 26, 11, 57, 23000000),
      DateTimeOf(987, 12, 3, 0, 5, 9007000) }

\* -------------------------------------------------------------- formatters

\* A DateTimeFormatter value.  kind says which function it is:
\*   "field"      one of the re-exported field formatters, called name;
\*   "arrow"      one of the arrow functions iso8601 creates, called name;
\*   "throws"     a caller's formatter that throws the exception called name;
\*   "inherited"  the value an object literal inherits under the key name;
\*   "undefined"  no function at all (a hole in the formatters array);
\*   "template"   a formatter returned by dateTimeTemplate.
DateTimeFormatter(kind, name, texts, formatters) ==
    [kind |-> kind, name |-> name, texts |-> texts, formatters |-> formatters]

Field(name) == DateTimeFormatter("field", name, <<>>, <<>>)

Arrow(name) == DateTimeFormatter("arrow", name, <<>>, <<>>)

Throws(name) == DateTimeFormatter("throws", name, <<>>, <<>>)

Inherited(name) == DateTimeFormatter("inherited", name, <<>>, <<>>)

UndefinedFormatter == DateTimeFormatter("undefined", Undefined, <<>>, <<>>)

dateTimeTemplate(texts, formatters) ==
    DateTimeFormatter("template", "dateTimeTemplate", texts, formatters)

NoException == "none"

\* What a call of a function returns or throws.
Returned(value) == [kind |-> "ok", defined |-> TRUE, value |-> value, exc |-> NoException]

ReturnedUndefined == [kind |-> "ok", defined |-> FALSE, value |-> <<>>, exc |-> NoException]

Thrown(exc) == [kind |-> "throw", defined |-> FALSE, value |-> <<>>, exc |-> exc]

FieldValue(name, dateTime) ==
    CASE name = "year4" -> year4(dateTime)
      [] name = "month2" -> month2(dateTime)
      [] name = "day2" -> day2(dateTime)
      [] name = "hours2" -> hours2(dateTime)
      [] name = "minutes2" -> minutes2(dateTime)
      [] name = "seconds2" -> seconds2(dateTime)
      [] name = "floorSeconds2" -> floorSeconds2(dateTime)
      [] name = "secondsMs" -> secondsMs(dateTime)

\* a ?? b as it would be if only undefined, and not null, gave way to b.
CoalesceUndefinedOnly(a, b) == IF a = Undefined THEN b ELSE a

\* a ?? b
Coalesce(a, b) == IF a \in {Undefined, Null} THEN b ELSE a

\* The arrow functions as they would be if timeDelimiter returned "T"
\* whatever the option says.
ArrowValueFixedDelimiter(name, opts) ==
    CASE name = "empty" -> <<>>
      [] name = "hyphen" -> <<"-">>
      [] name = "colon" -> <<":">>
      [] name = "timeDelimiter" -> <<"T">>

\* The arrow functions of iso8601.  timeDelimiter reads the options object
\* its closure captured when it is called; the option values are
\* one-character strings.
ArrowValue(name, opts) ==
    CASE name = "empty" -> <<>>
      [] name = "hyphen" -> <<"-">>
      [] name = "colon" -> <<":">>
      [] name = "timeDelimiter" -> <<Coalesce(opts.timeDelimiter, "T")>>

\* join as it would be with the separator left out of the call: join().
RECURSIVE joinWithCommas(_)
joinWithCommas(pieces) ==
    IF pieces = <<>> THEN <<>>
    ELSE (IF Head(pieces).defined THEN Head(pieces).value ELSE <<>>)
            \o (IF Len(pieces) > 1 THEN <<",">> ELSE <<>>) \o joinWithCommas(Tail(pieces))

\* Array.prototype.join(""): undefined elements join as the empty string.
RECURSIVE join(_)
join(pieces) ==
    IF pieces = <<>> THEN <<>>
    ELSE (IF Head(pieces).defined THEN Head(pieces).value ELSE <<>>) \o join(Tail(pieces))

\* concatMap as it would be if it kept one array for all its calls.
SharedArray == array

\* The array concatMap starts from on every call.
NewArray == <<>>

RECURSIVE concatMap(_, _, _, _, _, _, _)
RECURSIVE Call(_, _, _)

\* concatMap as it would be if it remembered, within a call, what each
\* formatter returned and did not call a formatter a second time.
RECURSIVE concatMapMemo(_, _, _, _, _, _, _)
concatMapMemo(texts, formatters, dateTime, opts, i, result, log) ==
    IF i > Len(texts)
    THEN [kind |-> "ok", pieces |-> result, exc |-> NoException, log |-> log]
    ELSE LET r == IF i > Len(formatters) \/ formatters[i].kind = "undefined"
                  THEN ReturnedUndefined
                  ELSE Call(formatters[i], dateTime, opts)
             known == \E j \in 1..(i - 1) : formatters[j] = formatters[i]
             called == IF i <= Len(formatters) /\ formatters[i].kind # "undefined"
                          /\ ~known
                       THEN Append(log, i) ELSE log
         IN  IF r.kind = "throw"
             THEN [kind |-> "throw", pieces |-> result, exc |-> r.exc, log |-> called]
             ELSE concatMapMemo(texts, formatters, dateTime, opts, i + 1,
                                result \o <<Returned(texts[i]), r>>, called)

\* The placeholder call as it would be inside try {} catch {}: an exception
\* of the formatter is swallowed and the placeholder left empty.
OptionalCallCaught(formatters, i, dateTime, opts) ==
    IF i > Len(formatters) \/ formatters[i].kind = "undefined"
    THEN ReturnedUndefined
    ELSE IF Call(formatters[i], dateTime, opts).kind = "throw"
         THEN ReturnedUndefined
         ELSE Call(formatters[i], dateTime, opts)

\* formatters[i]?.(dateTime), with i counted from 1.
OptionalCall(formatters, i, dateTime, opts) ==
    IF i > Len(formatters) \/ formatters[i].kind = "undefined"
    THEN ReturnedUndefined
    ELSE Call(formatters[i], dateTime, opts)

Invoked(formatters, i) == i <= Len(formatters) /\ formatters[i].kind # "undefined"

\* concatMap(texts, (text, i) => [text, formatters[i]?.(dateTime)]), from
\* element i on; result is the array built so far and log the positions of
\* the formatters called so far.  An exception ends the loop.
concatMap(texts, formatters, dateTime, opts, i, result, log) ==
    IF i > Len(texts)
    THEN [kind |-> "ok", pieces |-> result, exc |-> NoException, log |-> log]
    ELSE LET r == OptionalCall(formatters, i, dateTime, opts)
             called == IF Invoked(formatters, i) THEN Append(log, i) ELSE log
         IN  IF r.kind = "throw"
             THEN [kind |-> "throw", pieces |-> result, exc |-> r.exc, log |-> called]
             ELSE concatMap(texts, formatters, dateTime, opts, i + 1,
                            result \o <<Returned(texts[i]), r>>, called)

\* The returned function as it would be if it went through the formatters
\* and not through the texts.
TemplateCallOverFormatters(texts, formatters, dateTime, opts) ==
    LET padded == texts \o [i \in 1..(Len(formatters) - Len(texts)) |-> <<>>]
        r == concatMap(padded, formatters, dateTime, opts, 1, NewArray, <<>>)
    IN  [kind |-> r.kind,
         value |-> IF r.kind = "ok" THEN join(r.pieces) ELSE <<>>,
         exc |-> r.exc,
         pieces |-> r.pieces,
         log |-> r.log]

\* The function dateTimeTemplate returns, applied to dateTime.
TemplateCall(texts, formatters, dateTime, opts) ==
    LET r == concatMap(texts, formatters, dateTime, opts, 1, NewArray, <<>>)
    IN  [kind |-> r.kind,
         value |-> IF r.kind = "ok" THEN join(r.pieces) ELSE <<>>,
         exc |-> r.exc,
         pieces |-> r.pieces,
         log |-> r.log]

\* The call as it would be if a template used as a placeholder handed back
\* its array unjoined: the outer join("") then prints that array with commas.
CallNestedUnjoined(f, dateTime, opts) ==
    CASE f.kind = "field" -> Returned(FieldValue(f.name, dateTime))
      [] f.kind = "arrow" -> Returned(ArrowValue(f.name, opts))
      [] f.kind = "throws" -> Thrown(f.name)
      [] f.kind = "inherited" -> Thrown("TypeError")
      [] f.kind = "template" ->
            LET r == TemplateCall(f.texts, f.formatters, dateTime, opts)
            IN  IF r.kind = "ok" THEN Returned(joinWithCommas(r.pieces)) ELSE Thrown(r.exc)

\* f(dateTime); opts is the options object the arrow functions of iso8601
\* captured, as it is at the time of the call.
Call(f, dateTime, opts) ==
    CASE f.kind = "field" -> Returned(FieldValue(f.name, dateTime))
      [] f.kind = "arrow" -> Returned(ArrowValue(f.name, opts))
      [] f.kind = "throws" -> Thrown(f.name)
      [] f.kind = "inherited" -> Thrown("TypeError")
      [] f.kind = "template" ->
            LET r == TemplateCall(f.texts, f.formatters, dateTime, opts)
            IN  IF r.kind = "ok" THEN Returned(r.value) ELSE Thrown(r.exc)

\* ----------------------------------------------------------------- iso8601

\* The keys every object literal inherits, as far as the option values of
\* the model reach them.  The value found under "__proto__" is
\* Object.prototype, which is no function: calling it throws a TypeError.
ObjectPrototypeKeys == {"__proto__"}

\* {basic: () => "", extended: () => "-"}[options.format ?? "extended"]
dateSeparator(opts) ==
    LET key == Coalesce(opts.format, "extended")
    IN  CASE key = "basic" -> Arrow("empty")
          [] key = "extended" -> Arrow("hyphen")
          [] key \in ObjectPrototypeKeys -> Inherited(key)
          [] OTHER -> UndefinedFormatter

\* (): string => options.timeDelimiter ?? "T"
timeDelimiter(opts) == Arrow("timeDelimiter")

\* timeSeparator as it would be if it were a copy of dateSeparator with the
\* hyphen left in.
timeSeparatorCopied(opts) ==
    LET key == Coalesce(opts.format, "extended")
    IN  CASE key = "basic" -> Arrow("empty")
          [] key = "extended" -> Arrow("hyphen")
          [] key \in ObjectPrototypeKeys -> Inherited(key)
          [] OTHER -> UndefinedFormatter

\* {basic: () => "", extended: () => ":"}[options.format ?? "extended"]
timeSeparator(opts) ==
    LET key == Coalesce(opts.format, "extended")
    IN  CASE key = "basic" -> Arrow("empty")
          [] key = "extended" -> Arrow("colon")
          [] key \in ObjectPrototypeKeys -> Inherited(key)
          [] OTHER -> UndefinedFormatter

\* {none: seconds2, seconds: floorSeconds2, ms: secondsMs}[options.round ?? "none"]
seconds(opts) ==
    LET key == Coalesce(opts.round, "none")
    IN  CASE key = "none" -> Field("seconds2")
          [] key = "seconds" -> Field("floorSeconds2")
          [] key = "ms" -> Field("secondsMs")
          [] key \in ObjectPrototypeKeys -> Inherited(key)
          [] OTHER -> UndefinedFormatter

\* The texts of the template literal of iso8601: eleven placeholders with
\* nothing before, between or after them.
IsoTexts == [i \in 1..12 |-> <<>>]

iso8601(opts) ==
    dateTimeTemplate(IsoTexts,
        << Field("year4"), dateSeparator(opts), Field("month2"), dateSeparator(opts),
           Field("day2"), timeDelimiter(opts), Field("hours2"), timeSeparator(opts),
           Field("minutes2"), timeSeparator(opts), seconds(opts) >>)

\* options = {} when iso8601 is called without an argument; a property that
\* is absent reads as undefined.
EmptyOptions == [format |-> Undefined, round |-> Undefined, timeDelimiter |-> Undefined]

\* The values the model gives each option: the values of its type, undefined,
\* and values outside the type ("compact", "minutes", "_", null, and a key
\* that every object inherits).
FormatValues == {"basic", "extended", Undefined, "compact", "__proto__"}

RoundValues == {"none", "seconds", "ms", Undefined, "minutes"}

DelimiterValues == {"T", " ", Undefined, Null, "_"}

OptionRecords == [format : FormatValues, round : RoundValues, timeDelimiter : DelimiterValues]

\* ---------------------------------------------------------------- templates

\* The literal texts of the model's templates: the empty string (what lies
\* between two adjacent placeholders) and a text with a space at its end.
Literals == {<<>>, <<"x", " ">>}

\* The formatters a caller puts in a template: two field formatters, two
\* formatters that throw, and undefined.
Placeholders ==
    {Field("day2"), Field("seconds2"), Throws("RangeError"), Throws("TypeError"),
     UndefinedFormatter}

\* The formatters of a template that is embedded in another one.
NestPlaceholders == {Field("day2"), Throws("RangeError"), UndefinedFormatter}

SeqsUpTo(S, n) == UNION {[1..k -> S] : k \in 0..n}

\* ------------------------------------------------------------------ actions

NoDateTime == DateTimeOf(0, 0, 0, 0, 0, 0)

NoCall ==
    [called |-> FALSE, again |-> FALSE, dateTime |-> NoDateTime, kind |-> "none",
     value |-> <<>>, exc |-> NoException, log |-> <<>>]

NotSeen == [called |-> FALSE, kind |-> "none", value |-> <<>>, exc |-> NoException]

\* The state right after f was constructed; opts is the options object of
\* the caller (EmptyOptions where iso8601 was given none).
Constructed(f, opts) ==
    /\ formatter = f
    /\ options = opts
    /\ builtWith = opts
    /\ lastCall = NoCall
    /\ seen = [d \in DateTimes |-> NotSeen]
    /\ array = <<>>
    /\ assignments = 0

\* dateTimeTemplate(texts, ...formatters), called directly or as a tag, with
\* formatters drawn from placeholders, at most surplus more than texts.
DateTimeTemplate(placeholders, surplus) ==
    \E texts \in SeqsUpTo(Literals, MaxLits) :
        \E formatters \in SeqsUpTo(placeholders, Len(texts) + surplus) :
            Constructed(dateTimeTemplate(texts, formatters), EmptyOptions)

\* iso8601(options)
Iso8601 == \E opts \in OptionRecords : Constructed(iso8601(opts), opts)

\* iso8601()
Iso8601NoArgument == Constructed(iso8601(EmptyOptions), EmptyOptions)

\* dateTimeTemplate with the formatter constructed before as one of its
\* placeholders, alone or beside the formatter seconds2.
Embed ==
    /\ formatter.kind = "template"
    /\ \A i \in 1..Len(formatter.formatters) : formatter.formatters[i].kind # "template"
    /\ \E texts \in SeqsUpTo(Literals, MaxLits) :
           \E formatters \in {<<formatter>>, <<formatter, Field("seconds2")>>,
                              <<Field("seconds2"), formatter>>} :
               formatter' = dateTimeTemplate(texts, formatters)
    /\ lastCall' = NoCall
    /\ array' = <<>>
    /\ UNCHANGED <<options, builtWith, seen, assignments>>

\* The caller assigns to a field of the options object it passed to iso8601.
SetOption ==
    /\ assignments < MaxAssignments
    /\ assignments' = assignments + 1
    /\ \/ \E v \in FormatValues \ {options.format} :
              options' = [options EXCEPT !.format = v]
       \/ \E v \in RoundValues \ {options.round} :
              options' = [options EXCEPT !.round = v]
       \/ \E v \in DelimiterValues \ {options.timeDelimiter} :
              options' = [options EXCEPT !.timeDelimiter = v]
    /\ UNCHANGED <<formatter, builtWith, lastCall, seen, array>>

\* formatter(dateTime)
Formatted(dateTime) ==
    LET r == TemplateCall(formatter.texts, formatter.formatters, dateTime, options)
    IN  /\ lastCall' = [called |-> TRUE, again |-> seen[dateTime].called,
                        dateTime |-> dateTime, kind |-> r.kind, value |-> r.value,
                        exc |-> r.exc, log |-> r.log]
        /\ array' = r.pieces
        /\ UNCHANGED <<options, formatter, builtWith, assignments>>

Format == \E dateTime \in DateTimes : Formatted(dateTime) /\ UNCHANGED seen

\* formatter(dateTime), with the outcome of the first call on each DateTime
\* kept for comparison with the later ones.
FormatObserved ==
    \E dateTime \in DateTimes :
        /\ Formatted(dateTime)
        /\ seen' = IF seen[dateTime].called THEN seen
                   ELSE [seen EXCEPT ![dateTime] =
                            [called |-> TRUE, kind |-> lastCall'.kind,
                             value |-> lastCall'.value, exc |-> lastCall'.exc]]

\* The template composer: a formatter constructed by dateTimeTemplate or by
\* iso8601 is called again and again.
InitTemplate == DateTimeTemplate(Placeholders, 1) \/ Iso8601 \/ Iso8601NoArgument

SpecTemplate == InitTemplate /\ [][FormatObserved]_vars

\* Templates with a template as a placeholder.
InitNest == DateTimeTemplate(NestPlaceholders, 0)

NextNest == Embed \/ Format

SpecNest == InitNest /\ [][NextNest]_vars

\* iso8601 and the options object its caller holds.
InitIso == Iso8601 \/ Iso8601NoArgument

NextIso == SetOption \/ Format

SpecIso == InitIso /\ [][NextIso]_vars

\* ------------------------------------------------------- claims: composer

Outcome(r) == [kind |-> r.kind, value |-> r.value, exc |-> r.exc]

\* What placeholder i contributes for dateTime: the string formatters[i]
\* returns, and the empty string where there is no formatter.
Contribution(formatters, i, dateTime) ==
    IF Invoked(formatters, i) THEN Call(formatters[i], dateTime, options).value ELSE <<>>

\* texts[i] + f_i(dateTime) + texts[i+1] + ... + texts[n], with the formatters
\* at the positions up to slots and nothing after the other texts.
RECURSIVE Interleaved(_, _, _, _, _)
Interleaved(texts, formatters, dateTime, slots, i) ==
    IF i > Len(texts) THEN <<>>
    ELSE texts[i]
            \o (IF i <= slots THEN Contribution(formatters, i, dateTime) ELSE <<>>)
            \o Interleaved(texts, formatters, dateTime, slots, i + 1)

\* C1 as stated: whatever the texts and the formatters, a call that returns
\* returns texts[1] + f1(d) + texts[2] + ... + texts[n], ending with the last
\* text, with the empty string for every placeholder that has no formatter.
C1_EndsWithLastText ==
    (lastCall.called /\ lastCall.kind = "ok") =>
        lastCall.value = Interleaved(formatter.texts, formatter.formatters,
                                     lastCall.dateTime, Len(formatter.texts) - 1, 1)

\* C1 as amended: a call that returns returns texts[1] + g1 + texts[2] + g2 +
\* ... + texts[n] + gn, in this order and with nothing removed, where gi is
\* what formatter i returns for d and the empty string where there is no
\* formatter i; a formatter given for position n, after the last text, is
\* called and its string ends the result.
C1_Interleaving ==
    (lastCall.called /\ lastCall.kind = "ok") =>
        lastCall.value = Interleaved(formatter.texts, formatter.formatters,
                                     lastCall.dateTime, Len(formatter.texts), 1)

\* A call returned for a template with as many formatters as texts, the last
\* of them a field formatter.
C1_Witness ==
    /\ lastCall.called /\ lastCall.kind = "ok"
    /\ Len(formatter.texts) = 2 /\ Len(formatter.formatters) = 2
    /\ formatter.texts[1] # <<>> /\ formatter.texts[2] = formatter.texts[1]
    /\ formatter.formatters[1].kind = "field"
    /\ formatter.formatters[2].kind = "field"
    /\ lastCall.log = <<1, 2>>

\* The positions of the formatters that throw for dateTime.
Throwing(dateTime) ==
    {i \in 1..Len(formatter.texts) :
        /\ Invoked(formatter.formatters, i)
        /\ Call(formatter.formatters[i], dateTime, options).kind = "throw"}

Least(S) == CHOOSE i \in S : \A j \in S : i <= j

\* The positions up to k that hold a formatter, in ascending order.
RECURSIVE FunctionsUpTo(_, _)
FunctionsUpTo(formatters, k) ==
    IF k = 0 THEN <<>>
    ELSE FunctionsUpTo(formatters, k - 1)
            \o (IF Invoked(formatters, k) THEN <<k>> ELSE <<>>)

\* C3: when a formatter of the template throws, the call of the composed
\* formatter throws the exception of the first such formatter, returns no
\* string, and has called the formatters up to that one and none after it;
\* it throws only then.
C3_ExceptionPropagates ==
    lastCall.called =>
        IF Throwing(lastCall.dateTime) = {}
        THEN lastCall.kind = "ok"
        ELSE LET k == Least(Throwing(lastCall.dateTime))
             IN  /\ lastCall.kind = "throw"
                 /\ lastCall.value = <<>>
                 /\ lastCall.exc =
                        Call(formatter.formatters[k], lastCall.dateTime, options).exc
                 /\ lastCall.log = FunctionsUpTo(formatter.formatters, k)

\* A call threw at the first placeholder of a template whose second
\* formatter throws another exception.
C3_Witness ==
    /\ lastCall.called /\ lastCall.kind = "throw"
    /\ Len(formatter.formatters) = 2
    /\ formatter.formatters[1] = Throws("RangeError")
    /\ formatter.formatters[2] = Throws("TypeError")
    /\ lastCall.exc = "RangeError"
    /\ lastCall.log = <<1>>

PlaceholderPiece(formatters, i, dateTime) ==
    IF Invoked(formatters, i)
    THEN Returned(Call(formatters[i], dateTime, options).value)
    ELSE ReturnedUndefined

\* C9: a call that returns has called the formatter at every position that
\* holds one, once each and from left to right (a formatter that stands at
\* two positions is called twice), and what each position contributes is what
\* its formatter returns for the DateTime of this call.
C9_EveryFormatterOnce ==
    (lastCall.called /\ lastCall.kind = "ok") =>
        /\ lastCall.log = FunctionsUpTo(formatter.formatters, Len(formatter.texts))
        /\ Len(array) = 2 * Len(formatter.texts)
        /\ \A i \in 1..Len(formatter.texts) :
               /\ array[2 * i - 1] = Returned(formatter.texts[i])
               /\ array[2 * i] =
                      PlaceholderPiece(formatter.formatters, i, lastCall.dateTime)

\* A call returned for a template with seconds2 at both of its positions,
\* after a call on a DateTime with other seconds.
C9_Witness ==
    /\ lastCall.called /\ lastCall.kind = "ok"
    /\ formatter.formatters = <<Field("seconds2"), Field("seconds2")>>
    /\ lastCall.log = <<1, 2>>
    /\ \E d \in DateTimes :
           /\ seen[d].called
           /\ seconds2(d) # seconds2(lastCall.dateTime)

\* C10: with at least as many formatters as texts, no formatter beyond the
\* position of the last text is called and the result is what it is without
\* those formatters; the formatter at the position of the last text is
\* called last and its string ends the result, after the last text; with no
\* texts the result is the empty string and no formatter is called.
C10_SurplusFormatters ==
    LET texts == formatter.texts
        formatters == formatter.formatters
        n == Len(texts)
        without == TemplateCall(texts, SubSeq(formatters, 1, n), lastCall.dateTime, options)
    IN  (lastCall.called /\ Len(formatters) >= n) =>
            /\ \A j \in 1..Len(lastCall.log) : lastCall.log[j] <= n
            /\ Outcome(lastCall) = Outcome(without)
            /\ (lastCall.kind = "ok" /\ n > 0 /\ Invoked(formatters, n)) =>
                   /\ lastCall.log[Len(lastCall.log)] = n
                   /\ LET last == Call(formatters[n], lastCall.dateTime, options).value
                          k == Len(lastCall.value) - Len(last)
                      IN  /\ k >= Len(texts[n])
                          /\ SubSeq(lastCall.value, k + 1, Len(lastCall.value)) = last
                          /\ SubSeq(lastCall.value, k - Len(texts[n]) + 1, k) = texts[n]
            /\ n = 0 => (lastCall.kind = "ok" /\ lastCall.value = <<>> /\ lastCall.log = <<>>)

\* A call returned for a template of two texts and three formatters, the
\* third of which would have thrown.
C10_Witness ==
    /\ lastCall.called /\ lastCall.kind = "ok"
    /\ Len(formatter.texts) = 2 /\ Len(formatter.formatters) = 3
    /\ formatter.texts[2] # <<>>
    /\ formatter.formatters[2] = Field("seconds2")
    /\ formatter.formatters[3].kind = "throws"
    /\ lastCall.log = <<1, 2>>

\* ------------------------------------------------------- claims: nesting

\* The texts of the flat template that has the texts and formatters of the
\* template at placeholder k in its place: the first and the last text of
\* the inner template are joined to the texts around the placeholder.
InlinedTexts(texts, k, inner) ==
    SubSeq(texts, 1, k - 1)
        \o (CASE Len(inner.texts) = 0 -> <<texts[k] \o texts[k + 1]>>
              [] Len(inner.texts) = 1 -> <<texts[k] \o inner.texts[1] \o texts[k + 1]>>
              [] OTHER ->
                    <<texts[k] \o inner.texts[1]>>
                        \o SubSeq(inner.texts, 2, Len(inner.texts) - 1)
                        \o <<inner.texts[Len(inner.texts)] \o texts[k + 1]>>)
        \o SubSeq(texts, k + 2, Len(texts))

InlinedFormatters(formatters, k, inner) ==
    SubSeq(formatters, 1, k - 1) \o inner.formatters
        \o SubSeq(formatters, k + 1, Len(formatters))

\* The placeholders of the template, each with a text before and after it,
\* that hold a template.
NestedAt ==
    {k \in 1..Len(formatter.formatters) :
        k < Len(formatter.texts) /\ formatter.formatters[k].kind = "template"}

Inlined(k, dateTime) ==
    TemplateCall(InlinedTexts(formatter.texts, k, formatter.formatters[k]),
                 InlinedFormatters(formatter.formatters, k, formatter.formatters[k]),
                 dateTime, options)

\* C6 as stated: a call of a template with any template as a placeholder ends
\* as the call of the flat template with the inner texts and formatters
\* inlined at that placeholder.
C6_NestingIsInlining ==
    lastCall.called =>
        \A k \in NestedAt : Outcome(lastCall) = Outcome(Inlined(k, lastCall.dateTime))

\* C6 as amended: the same, for an inner template that has one formatter less
\* than it has texts.
C6_NestingWellFormedInner ==
    lastCall.called =>
        \A k \in NestedAt :
            Len(formatter.formatters[k].formatters) = Len(formatter.formatters[k].texts) - 1
                => Outcome(lastCall) = Outcome(Inlined(k, lastCall.dateTime))

\* A call returned for a template whose first placeholder is a template of
\* two texts around day2 and whose second formatter is seconds2.
C6_Witness ==
    /\ lastCall.called /\ lastCall.kind = "ok"
    /\ 1 \in NestedAt
    /\ Len(formatter.texts) = 2 /\ formatter.texts[1] # <<>>
    /\ Len(formatter.formatters) = 2
    /\ Len(formatter.formatters[1].texts) = 2
    /\ formatter.formatters[1].texts[2] # <<>>
    /\ formatter.formatters[1].formatters = <<Field("day2")>>

\* ------------------------------------------------------- claims: iso8601

InDomain(opts) ==
    /\ opts.format \in {"basic", "extended", Undefined}
    /\ opts.round \in {"none", "seconds", "ms", Undefined}
    /\ opts.timeDelimiter \in {"T", " ", Undefined}

OrDefault(value, default) == IF value = Undefined THEN default ELSE value

SecondsText(round, dateTime) ==
    CASE round = "none" -> seconds2(dateTime)
      [] round = "seconds" -> floorSeconds2(dateTime)
      [] round = "ms" -> secondsMs(dateTime)
      [] OTHER -> <<>>

\* year4 ds month2 ds day2 td hours2 ts minutes2 ts sec
Layout(ds, td, ts, sec, dateTime) ==
    year4(dateTime) \o ds \o month2(dateTime) \o ds \o day2(dateTime) \o td
        \o hours2(dateTime) \o ts \o minutes2(dateTime) \o ts \o sec

IsoText(format, round, delimiter, dateTime) ==
    Layout(IF format = "basic" THEN <<>> ELSE <<"-">>,
           <<delimiter>>,
           IF format = "basic" THEN <<>> ELSE <<":">>,
           SecondsText(round, dateTime), dateTime)

\* The formatter was called with the options as they were given to iso8601.
CalledAsBuilt == lastCall.called /\ assignments = 0

\* C2: for options within their domains or left out, iso8601(options)(d) is
\* year4 ds month2 ds day2 td hours2 ts minutes2 ts sec and nothing else,
\* with each of ds, ts, td and sec decided by its own option and by the
\* default where the option is left out.
C2_IsoLayout ==
    (CalledAsBuilt /\ InDomain(builtWith)) =>
        /\ lastCall.kind = "ok"
        /\ lastCall.value = IsoText(OrDefault(builtWith.format, "extended"),
                                    OrDefault(builtWith.round, "none"),
                                    OrDefault(builtWith.timeDelimiter, "T"),
                                    lastCall.dateTime)

\* iso8601({format: "basic", round: "ms", timeDelimiter: " "}) was called on
\* 0987-12-03T00:05:09.007.
C2_Witness ==
    /\ CalledAsBuilt
    /\ builtWith = [format |-> "basic", round |-> "ms", timeDelimiter |-> " "]
    /\ lastCall.dateTime.year = 987
    /\ lastCall.value # <<>>

DomainOr(value, domain, default) == IF value \in domain THEN value ELSE default

\* C4 as stated: with an option outside its domain, the formatter does not
\* throw and prints what it prints with that option at its default.
C4_MalformedIsDefault ==
    (CalledAsBuilt /\ ~InDomain(builtWith)) =>
        /\ lastCall.kind = "ok"
        /\ lastCall.value =
               IsoText(DomainOr(builtWith.format, {"basic", "extended"}, "extended"),
                       DomainOr(builtWith.round, {"none", "seconds", "ms"}, "none"),
                       DomainOr(builtWith.timeDelimiter, {"T", " "}, "T"),
                       lastCall.dateTime)

Missing == {Undefined, Null}

\* C4 as amended: null is read as the default, like undefined.  Any other
\* value outside the domain is not: with such a format the date and time
\* fields are printed without separators, with such a round the seconds are
\* left out, and such a timeDelimiter is printed as it is; the formatter does
\* not throw, unless the format or round names a property that every object
\* inherits and that is no function ("__proto__"), where it throws a
\* TypeError.
C4_MalformedAsCoded ==
    (CalledAsBuilt /\ ~InDomain(builtWith)) =>
        IF builtWith.format \in ObjectPrototypeKeys \/ builtWith.round \in ObjectPrototypeKeys
        THEN lastCall.kind = "throw" /\ lastCall.exc = "TypeError"
        ELSE /\ lastCall.kind = "ok"
             /\ lastCall.value =
                    Layout(IF builtWith.format \in Missing \cup {"extended"}
                           THEN <<"-">> ELSE <<>>,
                           IF builtWith.timeDelimiter \in Missing
                           THEN <<"T">> ELSE <<builtWith.timeDelimiter>>,
                           IF builtWith.format \in Missing \cup {"extended"}
                           THEN <<":">> ELSE <<>>,
                           SecondsText(IF builtWith.round \in Missing
                                       THEN "none" ELSE builtWith.round,
                                       lastCall.dateTime),
                           lastCall.dateTime)

\* iso8601({format: "compact", round: "minutes", timeDelimiter: null}) was
\* called and returned.
C4_Witness ==
    /\ CalledAsBuilt /\ lastCall.kind = "ok"
    /\ builtWith = [format |-> "compact", round |-> "minutes", timeDelimiter |-> Null]

\* C5: whatever is assigned to the fields of the options object after
\* iso8601 returned, a call of the formatter ends as it does with the options
\* as they were when iso8601 was called.
C5_FixedAtConstruction ==
    lastCall.called =>
        Outcome(lastCall) =
            Outcome(TemplateCall(formatter.texts, formatter.formatters,
                                 lastCall.dateTime, builtWith))

\* The twelve combinations of the option values.
Combinations ==
    [format : {"basic", "extended"}, round : {"none", "seconds", "ms"},
     timeDelimiter : {"T", " "}]

IsoOutput(opts, dateTime) ==
    TemplateCall(iso8601(opts).texts, iso8601(opts).formatters, dateTime, opts).value

\* C7 as stated: on every DateTime, the formatters of two different
\* combinations return different strings.
C7_AllDistinct ==
    (CalledAsBuilt /\ builtWith \in Combinations) =>
        /\ lastCall.kind = "ok"
        /\ \A other \in Combinations \ {builtWith} :
               IsoOutput(other, lastCall.dateTime) # lastCall.value

\* C7 as amended: every combination returns a string; two combinations
\* return the same string on a DateTime exactly when they differ in round
\* alone and the two seconds formatters print the seconds of that DateTime
\* alike (none and seconds on a whole second, none and ms on seconds with
\* exactly three decimals); on a DateTime with more than three decimals the
\* twelve strings are pairwise different.
C7_DistinctUpToSeconds ==
    (CalledAsBuilt /\ builtWith \in Combinations) =>
        /\ lastCall.kind = "ok"
        /\ \A other \in Combinations \ {builtWith} :
               (IsoOutput(other, lastCall.dateTime) = lastCall.value)
                   <=> /\ other.format = builtWith.format
                       /\ other.timeDelimiter = builtWith.timeDelimiter
                       /\ SecondsText(other.round, lastCall.dateTime)
                              = SecondsText(builtWith.round, lastCall.dateTime)
        /\ Micros(lastCall.dateTime) % 1000 # 0 =>
               \A other \in Combinations \ {builtWith} :
                   IsoOutput(other, lastCall.dateTime) # lastCall.value

\* iso8601({format: "extended", round: "none", timeDelimiter: " "}) was
\* called on a whole second, where round "seconds" prints the same.
C7_Witness ==
    /\ CalledAsBuilt /\ lastCall.kind = "ok"
    /\ builtWith = [format |-> "extended", round |-> "none", timeDelimiter |-> " "]
    /\ Micros(lastCall.dateTime) = 0
    /\ IsoOutput([builtWith EXCEPT !.round = "seconds"], lastCall.dateTime) = lastCall.value
====
